---- MODULE Spec2Model ----
(***************************************************************************)
(* A model of the nlogger Discord bot (src/app.py): the per-user log       *)
(* counter kept in LogBot.log_numbers, its JSON document on disk, and the  *)
(* three slash-command handlers log, reset_log and log_debug, run as       *)
(* coroutines on one event loop.  A handler runs without interruption up   *)
(* to its next await.  log and reset_log await only their final            *)
(* send_message and do nothing after it, so each is one step that ends by  *)
(* handing its response to the platform; log_debug awaits fetch_user once  *)
(* per listed entry, and other handlers run at those points.               *)
(***************************************************************************)
EXTENDS Integers, Sequences, FiniteSets, TLC

VARIABLES
    log_numbers,  \* LogBot.log_numbers: the in-memory dict, key (str) -> int
    file,         \* the document at LOG_NUMBERS_FILE
    debug,        \* the frame of the log_debug handler in flight
    sent,         \* the response last handed to interaction.response.send_message
    mutated,      \* history: the dict was written since the process started
    saveFailed,   \* history: a save has failed since the process started
    tracking,     \* history: whether hist is recorded in this behaviour
    hist,         \* history: per key, what is known of its counter since start
    call          \* a helper of log_command applied on its own: argument, result

vars == <<log_numbers, file, debug, sent, mutated, saveFailed, tracking, hist, call>>

----------------------------------------------------------------------------
(* Bounds of the model *)

\* a counter is not incremented past MaxCount; new_number is at most MaxReset
MaxCount == 2
MaxReset == 1

\* a username given to generate_user_code has at most MaxNameLen characters
MaxNameLen == 5

\* a date text is a well-formed date with at most MaxExtra characters put
\* before or after it
MaxExtra == 2

\* the log numbers formatted run from -MaxNegative to MaxPrinted
MaxNegative == 2
MaxPrinted == 150

\* interaction.user.id of the users who invoke the commands
UserIds == {1, 2}

\* new_number: int = 0 -- any integer the command surface passes on
NewNumbers == {-1} \cup (0..MaxReset)

\* str(interaction.user.id), str(target_user.id)
str(id) == ToString(id)

UserKeys == {str(u) : u \in UserIds}

EmptyDict == [k \in {} |-> 0]

----------------------------------------------------------------------------
(* The date argument of /log and its pattern *)

NoDate == [given |-> FALSE, text |-> <<>>]
DateOf(s) == [given |-> TRUE, text |-> s]

\* \d of a str pattern: the ASCII digits and every other Unicode decimal
\* digit, of which U+0663 (ARABIC-INDIC DIGIT THREE) stands for all
IsDigit(c) == c \in {"0","1","2","3","4","5","6","7","8","9","U+0663"}

\* ^\d{2}/\d{2}/\d{4}  anchored at the start of the text
MatchesCore(s) ==
    /\ Len(s) >= 10
    /\ \A i \in {1, 2, 4, 5, 7, 8, 9, 10} : IsDigit(s[i])
    /\ s[3] = "/"
    /\ s[6] = "/"

\* re.match(r'^\d{2}/\d{2}/\d{4}$', date): $ matches at the end of the text
\* and also just before a newline that ends it
date_pattern(s) ==
    /\ MatchesCore(s)
    /\ \/ Len(s) = 10
       \/ Len(s) = 11 /\ s[11] = "\n"

\* `if date:` -- None and the empty string are both falsy
Truthy(date) == date.given /\ Len(date.text) > 0

\* what log_command does with its date argument: "rejected" sends the
\* format error, "date" makes the text the log_date, "now" takes the IST clock
date_outcome(date) ==
    IF Truthy(date)
    THEN IF date_pattern(date.text) THEN "date" ELSE "rejected"
    ELSE "now"

\* a well-formed date text; the day it names is not on the calendar
SampleDate == <<"3","1","/","0","2","/","2","0","2","4">>

\* characters of a date text: a digit, the separator, other punctuation, a
\* newline, a blank, a letter, a digit outside ASCII
DateChars == {"7", "/", "-", "\n", " ", "a", "U+0663"}

\* texts of at most n characters over DateChars
Extras(n) == UNION {[1..i -> DateChars] : i \in 0..n}

\* the date texts a caller passes: SampleDate with one character replaced,
\* cut short, or with characters put before or after it
DateTexts ==
    {[SampleDate EXCEPT ![i] = c] : i \in 1..Len(SampleDate), c \in DateChars}
    \cup {SubSeq(SampleDate, 1, n) : n \in 0..Len(SampleDate)}
    \cup {SampleDate \o t : t \in Extras(MaxExtra)}
    \cup {t \o SampleDate : t \in Extras(MaxExtra)}

\* the date arguments of the /log invocations
Dates ==
    { NoDate,
      DateOf(<<>>),
      DateOf(SampleDate),
      DateOf(<<"1","/","2","/","2","0","2","4">>) }

----------------------------------------------------------------------------
(* generate_user_code *)

\* characters of a username: a lower-case letter, an upper-case letter, a
\* digit, a blank, and U+00DF (LATIN SMALL LETTER SHARP S)
NameChars == {"a", "B", "1", " ", "U+00DF"}

Usernames == UNION {[1..n -> NameChars] : n \in 0..MaxNameLen}

\* str.isspace of one character
IsSpace(c) == c = " "

\* str.strip(): leading and trailing whitespace removed
strip(s) ==
    LET kept == {i \in 1..Len(s) : ~IsSpace(s[i])}
    IN  IF kept = {} THEN <<>>
        ELSE SubSeq(s, CHOOSE i \in kept : \A j \in kept : i <= j,
                       CHOOSE i \in kept : \A j \in kept : i >= j)

\* str.upper() of one character: U+00DF has no single upper-case character
\* and becomes "SS"
UpperChar(c) ==
    CASE c = "a" -> <<"A">>
      [] c = "U+00DF" -> <<"S", "S">>
      [] OTHER -> <<c>>

RECURSIVE upper(_)
\* str.upper()
upper(s) == IF s = <<>> THEN <<>> ELSE UpperChar(Head(s)) \o upper(Tail(s))

\* as generate_user_code, but a name shorter than 2 is repeated twice
generate_user_code_twice(username) ==
    LET name == strip(username)
        n == Len(name)
    IN  IF n < 2 THEN upper(name \o name)
        ELSE IF n = 2 THEN upper(name \o name)
        ELSE IF n = 3 THEN upper(SubSeq(name, 1, 2) \o <<name[n], name[n]>>)
        ELSE upper(SubSeq(name, 1, 2) \o SubSeq(name, n - 1, n))

\* generate_user_code(username)
generate_user_code(username) ==
    LET name == strip(username)
        n == Len(name)
    IN  IF n < 2 THEN upper((name \o name) \o (name \o name))
        ELSE IF n = 2 THEN upper(name \o name)
        ELSE IF n = 3 THEN upper(SubSeq(name, 1, 2) \o <<name[n], name[n]>>)
        ELSE upper(SubSeq(name, 1, 2) \o SubSeq(name, n - 1, n))

----------------------------------------------------------------------------
(* {log_number:02d} *)

DigitChar(d) == <<"0","1","2","3","4","5","6","7","8","9">>[d + 1]

RECURSIVE Decimal(_)
\* the decimal digits of n >= 0
Decimal(n) == IF n < 10 THEN <<DigitChar(n)>> ELSE Decimal(n \div 10) \o <<DigitChar(n % 10)>>

\* format(n, "02d"): sign, then zeros up to a width of 2, then the digits
format02d(n) ==
    LET sign == IF n < 0 THEN <<"-">> ELSE <<>>
        digits == Decimal(IF n < 0 THEN -n ELSE n)
        fill == IF Len(sign) + Len(digits) < 2 THEN <<"0">> ELSE <<>>
    IN  sign \o fill \o digits

LogNumbers == (-MaxNegative)..MaxPrinted

----------------------------------------------------------------------------
(* The persisted document *)

NoFile == [state |-> "missing", doc |-> {}]
Truncated == [state |-> "corrupt", doc |-> {}]

\* json.dump(self.log_numbers, f): the members of one JSON object
json_dump(m) == {<<k, m[k]>> : k \in DOMAIN m}

\* json.load(f): the dict built from the members of the object
json_load(doc) == [k \in {p[1] : p \in doc} |-> CHOOSE v \in {p[2] : p \in doc} : <<k, v>> \in doc]

ReadOutcomes == {"ok", "oserror"}
SaveOutcomes == {"ok", "open_fail", "write_fail"}

\* the outcome of the save an invocation attempts, "none" when it attempts none
Outcomes == SaveOutcomes \cup {"none"}

\* as load_log_numbers, but every path returns {}
load_log_numbers_empty(f, read) == EmptyDict

\* as load_log_numbers, but a failure to open or read is not caught
load_log_numbers_uncaught(f, read) ==
    IF f.state = "ok" THEN json_load(f.doc) ELSE EmptyDict

\* LogBot.load_log_numbers: {} unless the file exists, opens and parses
load_log_numbers(f, read) ==
    IF f.state = "missing" THEN EmptyDict
    ELSE IF read # "ok" THEN EmptyDict
    ELSE IF f.state = "corrupt" THEN EmptyDict
    ELSE json_load(f.doc)

\* as save_log_numbers, but nothing is written
save_log_numbers_skipped(f, m, out) == f

\* LogBot.save_log_numbers: open(..., 'w') truncates, json.dump writes; an
\* exception from either is swallowed
save_log_numbers(f, m, out) ==
    CASE out = "ok" -> [state |-> "ok", doc |-> json_dump(m)]
      [] out = "open_fail" -> f
      [] out = "write_fail" -> Truncated

\* as get_next_log_number, but a new key starts at 0
get_next_log_number_from0(m, user_id) ==
    IF user_id \notin DOMAIN m
    THEN [k \in DOMAIN m \cup {user_id} |-> IF k = user_id THEN 0 ELSE m[k]]
    ELSE [m EXCEPT ![user_id] = @ + 1]

\* as get_next_log_number, but an existing counter is decremented
get_next_log_number_down(m, user_id) ==
    IF user_id \notin DOMAIN m
    THEN [k \in DOMAIN m \cup {user_id} |-> IF k = user_id THEN 1 ELSE m[k]]
    ELSE [m EXCEPT ![user_id] = @ - 1]

\* as get_next_log_number, but the increment of an existing counter is lost
get_next_log_number_lost(m, user_id) ==
    IF user_id \notin DOMAIN m
    THEN [k \in DOMAIN m \cup {user_id} |-> IF k = user_id THEN 1 ELSE m[k]]
    ELSE m

\* LogBot.get_next_log_number, the update of the dict
get_next_log_number(m, user_id) ==
    IF user_id \notin DOMAIN m
    THEN [k \in DOMAIN m \cup {user_id} |-> IF k = user_id THEN 1 ELSE m[k]]
    ELSE [m EXCEPT ![user_id] = @ + 1]

\* as set_log_number, but only a key that has a counter is set
set_log_number_existing(m, user_id, new_number) ==
    IF user_id \in DOMAIN m THEN [m EXCEPT ![user_id] = new_number] ELSE m

\* as set_log_number, but every counter of the dict is set
set_log_number_all(m, user_id, new_number) ==
    [k \in DOMAIN m \cup {user_id} |-> new_number]

\* bot.log_numbers[user_id] = new_number
set_log_number(m, user_id, new_number) ==
    [k \in DOMAIN m \cup {user_id} |-> IF k = user_id THEN new_number ELSE m[k]]

\* as reset_denied, but the test of is_admin is inverted
reset_denied_inverted(user, is_admin) == user # 0 /\ is_admin

\* `if user and not is_admin`
reset_denied(user, is_admin) == user # 0 /\ ~is_admin

----------------------------------------------------------------------------
(* Responses and the log_debug frame *)

\* a response: its text by kind and its visibility; user_id and log_number
\* are the locals of the log_command that sent it, printed is the number as
\* its text shows it, listed is the number of lines of a log_debug listing
Resp(kind, ephemeral) ==
    [kind |-> kind, ephemeral |-> ephemeral, user_id |-> "", log_number |-> 0,
     printed |-> <<>>, listed |-> 0]

\* nothing sent yet
NoResp == Resp("none", FALSE)

\* the exception left the handler: the platform gets no response
Unhandled == Resp("unhandled_error", FALSE)

\* the locals log_debug_command holds across await bot.fetch_user: size is
\* the length the dict iterator recorded, listed the lines appended so far
DebugIdle == [pc |-> "idle", size |-> 0, listed |-> 0]

\* a helper of log_command called with arg, before it has returned
Called(fn, arg) == [fn |-> fn, arg |-> arg, pc |-> "called", ret |-> <<>>]

\* no helper is applied on its own
NoCall == [fn |-> "none", arg |-> <<>>, pc |-> "idle", ret |-> <<>>]

----------------------------------------------------------------------------
(* History bookkeeping, written by the actions and read only by properties *)

\* kind says where the counter of a key was last anchored:
\*   "missing", "unreadable", "corrupt"  the load at start found no usable
\*                                       document, for that reason
\*   "absent"   the document loaded at start has no entry for the key
\*   "loaded"   the document loaded at start has the entry val
\*   "reset"    the key was reset to val
\*   "other"    none of these any more
\* calls counts the log numbers issued for the key since then.
Anchor(kind, val) == [kind |-> kind, val |-> val, calls |-> 0]

Unloaded == {"missing", "unreadable", "corrupt"}

BootHist(f, read) ==
    [k \in UserKeys |->
        IF f.state = "missing" THEN Anchor("missing", 0)
        ELSE IF read # "ok" THEN Anchor("unreadable", 0)
        ELSE IF f.state = "corrupt" THEN Anchor("corrupt", 0)
        ELSE IF k \in {p[1] : p \in f.doc}
        THEN Anchor("loaded", CHOOSE v \in {p[2] : p \in f.doc} : <<k, v>> \in f.doc)
        ELSE Anchor("absent", 0)]

Issued(h) ==
    IF h.kind \in Unloaded \cup {"absent"} THEN [h EXCEPT !.calls = @ + 1]
    ELSE IF h.kind \in {"loaded", "reset"} /\ h.calls = 0 THEN [h EXCEPT !.calls = 1]
    ELSE Anchor("other", 0)

\* hist is left alone in a behaviour that does not record it
Record(h) == IF tracking THEN h ELSE hist

----------------------------------------------------------------------------
(* Initial state: bot = LogBot() on a host with no counter document *)

Start ==
    /\ file = NoFile
    /\ log_numbers = load_log_numbers(NoFile, "ok")
    /\ debug = DebugIdle
    /\ sent = NoResp
    /\ mutated = FALSE
    /\ saveFailed = FALSE
    /\ hist = BootHist(NoFile, "ok")

Init == Start /\ tracking = FALSE /\ call = NoCall

InitHist == Start /\ tracking = TRUE /\ call = NoCall

----------------------------------------------------------------------------
(* /log: log_command *)

log_command(u, date, out) ==
    LET user_id == str(u)
        m == get_next_log_number(log_numbers, user_id)
        log_number == m[user_id]
    IN  /\ user_id \in DOMAIN log_numbers => log_numbers[user_id] < MaxCount
        /\ log_numbers' = m
        /\ file' = save_log_numbers(file, m, out)
        /\ sent' = IF date_outcome(date) = "rejected"
                   THEN [Resp("invalid_date", TRUE)
                           EXCEPT !.user_id = user_id, !.log_number = log_number]
                   ELSE [Resp("entry", FALSE)
                           EXCEPT !.user_id = user_id, !.log_number = log_number,
                                  !.printed = format02d(log_number)]
        /\ mutated' = TRUE
        /\ saveFailed' = (saveFailed \/ out # "ok")
        /\ hist' = Record([hist EXCEPT ![user_id] = Issued(@)])
        /\ UNCHANGED <<debug, tracking, call>>

----------------------------------------------------------------------------
(* /reset_log: reset_log_command.  user is the optional target, 0 for None *)

reset_log_command(u, user, new_number, is_admin, out) ==
    LET target_user == IF user # 0 THEN user ELSE u
        user_id == str(target_user)
        m == set_log_number(log_numbers, user_id, new_number)
    IN  IF reset_denied(user, is_admin)
        THEN /\ out = "none"
             /\ sent' = Resp("admin_only", TRUE)
             /\ UNCHANGED <<log_numbers, file, debug, mutated, saveFailed, tracking, hist, call>>
        ELSE /\ out \in SaveOutcomes
             /\ log_numbers' = m
             /\ file' = save_log_numbers(file, m, out)
             /\ sent' = IF user # 0 THEN Resp("reset_other", FALSE)
                        ELSE Resp("reset_own", TRUE)
             /\ mutated' = TRUE
             /\ saveFailed' = (saveFailed \/ out # "ok")
             /\ hist' = Record([hist EXCEPT ![user_id] = Anchor("reset", new_number)])
             /\ UNCHANGED <<debug, tracking, call>>

----------------------------------------------------------------------------
(* /log_debug: log_debug_command *)

\* as DebugResp, but the listing is sent for all to see
DebugResp_public(listed) == [Resp("debug", FALSE) EXCEPT !.listed = listed]

\* send_message(debug_info, ephemeral=True)
DebugResp(listed) == [Resp("debug", TRUE) EXCEPT !.listed = listed]

\* up to the first await: the empty dict goes straight to send_message, else
\* the iterator over log_numbers.items() is created and yields its first item
log_debug_command ==
    /\ debug.pc = "idle"
    /\ IF DOMAIN log_numbers = {}
       THEN /\ sent' = DebugResp(0)
            /\ UNCHANGED debug
       ELSE /\ debug' = [pc |-> "fetch", size |-> Cardinality(DOMAIN log_numbers),
                         listed |-> 0]
            /\ UNCHANGED sent
    /\ UNCHANGED <<log_numbers, file, mutated, saveFailed, tracking, hist, call>>

\* fetch_user returns or raises (the name or the "Unknown" label is appended),
\* then the dict iterator is advanced: it raises RuntimeError when the dict
\* changed size since the iterator was created, ends the loop after the last
\* item, and else yields the next item, which is fetched in turn
log_debug_fetched(found) ==
    LET listed == debug.listed + 1
    IN  /\ debug.pc = "fetch"
        /\ IF Cardinality(DOMAIN log_numbers) # debug.size
           THEN /\ sent' = Unhandled
                /\ debug' = DebugIdle
           ELSE IF listed = debug.size
           THEN /\ sent' = DebugResp(listed)
                /\ debug' = DebugIdle
           ELSE /\ debug' = [debug EXCEPT !.listed = listed]
                /\ UNCHANGED sent
        /\ UNCHANGED <<log_numbers, file, mutated, saveFailed, tracking, hist, call>>

----------------------------------------------------------------------------
(* The process is stopped and started again: LogBot.__init__ loads the file *)

Restart(read) ==
    /\ log_numbers' = load_log_numbers(file, read)
    /\ debug' = DebugIdle
    /\ sent' = NoResp
    /\ mutated' = FALSE
    /\ saveFailed' = FALSE
    /\ hist' = Record(BootHist(file, read))
    /\ UNCHANGED <<file, tracking, call>>

----------------------------------------------------------------------------

Next ==
    \/ \E u \in UserIds, date \in Dates, out \in SaveOutcomes :
          log_command(u, date, out)
    \/ \E u \in UserIds, user \in {0} \cup UserIds, new_number \in NewNumbers,
          is_admin \in BOOLEAN, out \in Outcomes :
          reset_log_command(u, user, new_number, is_admin, out)
    \/ log_debug_command
    \/ \E found \in BOOLEAN : log_debug_fetched(found)
    \/ \E read \in ReadOutcomes : Restart(read)

\* the program
Spec == Init /\ [][Next]_vars

\* the program, with the history of each key recorded in hist
SpecHist == InitHist /\ [][Next]_vars

----------------------------------------------------------------------------
(* The helpers of log_command, each applied on its own to one argument *)

\* the bot as constructed, and one helper called with one argument
InitPure ==
    /\ Start
    /\ tracking = FALSE
    /\ \/ \E date \in {NoDate} \cup {DateOf(t) : t \in DateTexts} :
             call = Called("date_outcome", date)
       \/ \E username \in Usernames : call = Called("generate_user_code", username)
       \/ \E log_number \in LogNumbers : call = Called("format02d", log_number)

\* the helper returns; it reads and writes nothing of the bot
Return(ret) ==
    /\ call.pc = "called"
    /\ call' = [call EXCEPT !.pc = "returned", !.ret = ret]
    /\ UNCHANGED <<log_numbers, file, debug, sent, mutated, saveFailed, tracking, hist>>

\* lines 88-99 of log_command applied to date
apply_date_outcome == call.fn = "date_outcome" /\ Return(date_outcome(call.arg))

\* user_code = generate_user_code(username)
apply_generate_user_code ==
    call.fn = "generate_user_code" /\ Return(generate_user_code(call.arg))

\* {log_number:02d}
apply_format02d == call.fn = "format02d" /\ Return(format02d(call.arg))

NextPure ==
    \/ apply_date_outcome
    \/ apply_generate_user_code
    \/ apply_format02d

\* the helpers of log_command on every argument within the bounds
SpecPure == InitPure /\ [][NextPure]_vars

\* helper fn has returned from the call with argument call.arg
Returned(fn) == call.fn = fn /\ call.pc = "returned"

----------------------------------------------------------------------------
(* Helpers of the properties *)

\* key k has a counter in dict m, and it is v
Has(m, k, v) == k \in DOMAIN m /\ m[k] = v

\* sent is the answer of a log invocation for key k
LogSentFor(k) == sent.kind \in {"entry", "invalid_date"} /\ sent.user_id = k

----------------------------------------------------------------------------
(* Properties *)

\* C1: a log invocation whose date is rejected as malformed leaves the
\* in-memory counters and the persisted document as they were.
C1_RejectedLogMutatesNothing ==
    [][\A u \in UserIds, date \in Dates, out \in SaveOutcomes :
          (Truthy(date) /\ ~date_pattern(date.text) /\ log_command(u, date, out))
          => UNCHANGED <<log_numbers, file>>]_vars

\* C2: a reset_log invocation by a non-administrator that names another user
\* is answered with the private rejection and changes neither the in-memory
\* counters nor the persisted document.
C2_DeniedResetMutatesNothing ==
    [][\A u \in UserIds, user \in UserIds, new_number \in NewNumbers, out \in Outcomes :
          (user # u /\ reset_log_command(u, user, new_number, FALSE, out))
          => /\ sent' = Resp("admin_only", TRUE)
             /\ UNCHANGED <<log_numbers, file>>]_vars

C2_Witness ==
    /\ sent = Resp("admin_only", TRUE)
    /\ DOMAIN log_numbers = UserKeys
    /\ file.state = "ok"

\* C3: for a key absent from the dict, the n-th log number issued for it,
\* with no reset of it in between, is n, whatever is issued to other keys.
C3_FreshUserCountsFromOne ==
    \A k \in UserKeys :
        hist[k].kind \in Unloaded \cup {"absent"}
        => /\ hist[k].calls = 0 => k \notin DOMAIN log_numbers
           /\ hist[k].calls > 0 => Has(log_numbers, k, hist[k].calls)
           /\ LogSentFor(k) => sent.log_number = hist[k].calls

C3_Witness ==
    \E k \in UserKeys :
        /\ hist[k].kind \in Unloaded \cup {"absent"}
        /\ hist[k].calls = MaxCount
        /\ LogSentFor(k) /\ sent.log_number = MaxCount
        /\ \E k2 \in UserKeys \ {k} : hist[k2].calls > 0 /\ hist[k2].calls < MaxCount

\* C4: a reset of key k to v leaves k's counter at v, whether or not k had a
\* counter, and the log number issued next for k is v + 1.
C4_ResetThenNext ==
    \A k \in UserKeys :
        hist[k].kind = "reset"
        => /\ hist[k].calls = 0 => Has(log_numbers, k, hist[k].val)
           /\ hist[k].calls = 1 => /\ Has(log_numbers, k, hist[k].val + 1)
                                   /\ LogSentFor(k) => sent.log_number = hist[k].val + 1

C4_Witness ==
    \E k \in UserKeys :
        /\ hist[k].kind = "reset" /\ hist[k].calls = 1 /\ hist[k].val = MaxReset
        /\ LogSentFor(k) /\ sent.log_number = MaxReset + 1

\* C5: after a start that loaded the document, every key has the counter
\* the document holds for it, and the first log number issued for a key the
\* document maps to k is k + 1.
C5_CountersSurviveRestart ==
    \A k \in UserKeys :
        hist[k].kind = "loaded"
        => /\ hist[k].calls = 0 => Has(log_numbers, k, hist[k].val)
           /\ hist[k].calls = 1 => /\ Has(log_numbers, k, hist[k].val + 1)
                                   /\ LogSentFor(k) => sent.log_number = hist[k].val + 1

C5_Witness ==
    \E k \in UserKeys :
        /\ hist[k].kind = "loaded" /\ hist[k].calls = 1 /\ hist[k].val = MaxCount - 1
        /\ LogSentFor(k) /\ sent.log_number = MaxCount
        /\ \E k2 \in UserKeys \ {k} : hist[k2].kind = "loaded" /\ hist[k2].calls = 0

\* C6: a start that finds the document missing, unreadable or corrupted
\* begins with an empty dict, and the first log number of every key is 1.
C6_FailedLoadStartsEmpty ==
    \A k \in UserKeys :
        hist[k].kind \in Unloaded
        => /\ (~mutated => log_numbers = EmptyDict)
           /\ hist[k].calls = 0 => k \notin DOMAIN log_numbers
           /\ (hist[k].calls = 1 /\ LogSentFor(k)) => sent.log_number = 1

C6_Witness ==
    /\ \E k \in UserKeys :
          hist[k].kind = "corrupt" /\ hist[k].calls = 1 /\ LogSentFor(k) /\ sent.log_number = 1
    /\ \E k \in UserKeys : hist[k].kind = "corrupt" /\ hist[k].calls = 0

C6_WitnessUnreadable ==
    /\ file.state = "ok" /\ file.doc # {}
    /\ \E k \in UserKeys :
          hist[k].kind = "unreadable" /\ hist[k].calls = 1 /\ LogSentFor(k) /\ sent.log_number = 1

\* C7: between two starts of the process, the counter of a key changes only
\* in a log invocation of that user, which makes it larger (or creates it),
\* or in a reset_log invocation that targets the key.
C7_ChangesOnlyByLogOrReset ==
    [][\/ \E read \in ReadOutcomes : Restart(read)
       \/ \A k \in UserKeys :
            \/ /\ (k \in DOMAIN log_numbers) = (k \in DOMAIN log_numbers')
               /\ k \in DOMAIN log_numbers => log_numbers'[k] = log_numbers[k]
            \/ /\ k \in DOMAIN log_numbers'
               /\ k \in DOMAIN log_numbers => log_numbers'[k] > log_numbers[k]
               /\ \E u \in UserIds, date \in Dates, out \in SaveOutcomes :
                     str(u) = k /\ log_command(u, date, out)
            \/ \E u \in UserIds, user \in {0} \cup UserIds, new_number \in NewNumbers,
                  is_admin \in BOOLEAN, out \in SaveOutcomes :
                  /\ str(IF user # 0 THEN user ELSE u) = k
                  /\ ~reset_denied(user, is_admin)
                  /\ reset_log_command(u, user, new_number, is_admin, out)]_vars

C7_Witness ==
    /\ sent = DebugResp(Cardinality(UserKeys))
    /\ \E k \in UserKeys : Has(log_numbers, k, MaxCount)
    /\ \E k \in UserKeys : Has(log_numbers, k, 0)

\* C8: every counter in the dict is a non-negative integer.
C8_CountersNonNegative == \A k \in DOMAIN log_numbers : log_numbers[k] >= 0

\* C9: when the save of a log or reset_log invocation fails, the handler
\* still answers, the dict holds the new value (which log returns), and the
\* document is left as it was.
C9_FailedSaveLeavesDocument ==
    [][/\ \A u \in UserIds, date \in Dates, out \in SaveOutcomes \ {"ok"} :
            log_command(u, date, out)
            => /\ file' = file
               /\ sent'.kind \in {"entry", "invalid_date"}
               /\ Has(log_numbers', str(u), sent'.log_number)
       /\ \A u \in UserIds, user \in {0} \cup UserIds, new_number \in NewNumbers,
            is_admin \in BOOLEAN, out \in SaveOutcomes \ {"ok"} :
            reset_log_command(u, user, new_number, is_admin, out)
            => /\ file' = file
               /\ sent'.kind \in {"reset_own", "reset_other"}
               /\ Has(log_numbers', str(IF user # 0 THEN user ELSE u), new_number)]_vars

\* the document holds exactly the dict
Synced == file.state = "ok" /\ json_load(file.doc) = log_numbers

\* the dict a load of the document would give
DocView == IF file.state = "ok" THEN json_load(file.doc) ELSE EmptyDict

C11_RejectedOnlyForOthers ==
    [][\A u \in UserIds, user \in {0} \cup UserIds, new_number \in NewNumbers,
          is_admin \in BOOLEAN, out \in Outcomes :
          reset_log_command(u, user, new_number, is_admin, out)
          => (sent'.kind = "admin_only" <=> (user # 0 /\ user # u /\ ~is_admin))]_vars

\* C12: the answer to a reset_log invocation that was carried out is private
\* exactly when the counter reset is the invoker's own, and public only when
\* an administrator reset the counter of another user.
C12_PrivateForOwnCounter ==
    [][\A u \in UserIds, user \in {0} \cup UserIds, new_number \in NewNumbers,
          is_admin \in BOOLEAN, out \in SaveOutcomes :
          (~reset_denied(user, is_admin)
           /\ reset_log_command(u, user, new_number, is_admin, out))
          => /\ sent'.ephemeral <=> (IF user # 0 THEN user ELSE u) = u
             /\ ~sent'.ephemeral => (is_admin /\ user # 0 /\ user # u)]_vars

\* the text is two digits, "/", two digits, "/", four digits and nothing else
ExactDate(s) ==
    /\ Len(s) = 10
    /\ \A i \in {1, 2, 4, 5, 7, 8, 9, 10} : IsDigit(s[i])
    /\ s[3] = "/"
    /\ s[6] = "/"

\* C13: a date the caller supplies is taken as the log date if and only if
\* the whole text is two digits, "/", two digits, "/", four digits, whether
\* or not it names a calendar day; every other supplied text is rejected.
C13_AcceptedIffExactPattern ==
    (Returned("date_outcome") /\ call.arg.given)
    => /\ call.ret = "date" <=> ExactDate(call.arg.text)
       /\ ~ExactDate(call.arg.text) => call.ret = "rejected"

\* C14, as claimed: a username that trims to one character gives that
\* character upper-cased and repeated twice; one that trims to nothing gives
\* the empty tag.
C14_OneCharRepeatedTwice ==
    Returned("generate_user_code")
    => LET name == strip(call.arg)
       IN  /\ Len(name) = 1 => call.ret = upper(name) \o upper(name)
           /\ Len(name) = 0 => call.ret = <<>>

\* C14, amended: a username that trims to one character gives that
\* character upper-cased and repeated four times; one that trims to nothing
\* gives the empty tag.
C14_OneCharRepeatedFourTimes ==
    Returned("generate_user_code")
    => LET name == strip(call.arg)
       IN  /\ Len(name) = 1
              => call.ret = upper(name) \o upper(name) \o upper(name) \o upper(name)
           /\ Len(name) = 0 => call.ret = <<>>

C14_Witness ==
    /\ Returned("generate_user_code")
    /\ call.arg = <<" ", "a", " ">>
    /\ call.ret = <<"A", "A", "A", "A">>

C14_WitnessEmpty ==
    /\ Returned("generate_user_code")
    /\ call.arg = <<" ", " ">>
    /\ call.ret = <<>>

\* C15: a username that trims to four characters or more gives a tag of
\* exactly 4 characters, the upper-cased first two followed by the
\* upper-cased last two of the trimmed name.
C15_FourCharTag ==
    Returned("generate_user_code")
    => LET name == strip(call.arg)
           n == Len(name)
       IN  n >= 4 => /\ Len(call.ret) = 4
                     /\ call.ret = upper(SubSeq(name, 1, 2)) \o upper(SubSeq(name, n - 1, n))

\* the number of ASCII digits in text t
NumDigits(t) ==
    Cardinality({i \in 1..Len(t) : t[i] \in {"0","1","2","3","4","5","6","7","8","9"}})

\* C16: the log number is printed with at least 2 digits: a value below 10
\* has a zero put before it, a value of 100 or more keeps all its digits.
C16_PrintedWithTwoDigits ==
    Returned("format02d")
    => LET n == call.arg
           t == call.ret
       IN  /\ NumDigits(t) >= 2
           /\ (0 <= n /\ n < 10) => t = <<"0", DigitChar(n)>>
           /\ n >= 100 => t = Decimal(n)

\* C17: no log_debug invocation ends with an error that leaves the handler;
\* each one ends with its listing sent, whatever log and reset_log
\* invocations run while it awaits fetch_user.
C17_DebugNeverRaises == sent.kind # "unhandled_error"

\* C18: every log invocation of a user, also one that runs while a log_debug
\* invocation is suspended, is given the number one above the counter the
\* user had (1 when the user had none) and leaves the counter at that
\* number; so k invocations get k consecutive numbers and none is lost.
C18_NoLostUpdate ==
    [][\A u \in UserIds, date \in Dates, out \in SaveOutcomes :
          log_command(u, date, out)
          => /\ sent'.log_number =
                   IF str(u) \in DOMAIN log_numbers THEN log_numbers[str(u)] + 1 ELSE 1
             /\ Has(log_numbers', str(u), sent'.log_number)]_vars

C18_Witness ==
    /\ debug.pc = "fetch"
    /\ \E k \in UserKeys :
          /\ LogSentFor(k) /\ sent.log_number = MaxCount
          /\ Has(log_numbers, k, MaxCount)
          /\ \E k2 \in UserKeys \ {k} : Has(log_numbers, k2, 1)

\* C19: no step of a log_debug invocation changes a counter, the set of
\* users that have one, or the document, and the listing it sends is private.
C19_DebugReadOnly ==
    [][(log_debug_command \/ \E found \in BOOLEAN : log_debug_fetched(found))
       => /\ UNCHANGED <<log_numbers, file>>
          /\ sent'.kind = "debug" => sent'.ephemeral]_vars

C19_Witness ==
    /\ sent.kind = "debug" /\ sent.ephemeral
    /\ sent.listed = Cardinality(UserKeys)
    /\ file.state = "ok" /\ file.doc = json_dump(log_numbers)
    /\ \E k \in UserKeys : Has(log_numbers, k, -1)

\* the counter of key k, or its absence, is the same before and after the step
SameCounter(k) ==
    /\ (k \in DOMAIN log_numbers) = (k \in DOMAIN log_numbers')
    /\ k \in DOMAIN log_numbers => log_numbers'[k] = log_numbers[k]

\* C20: a log invocation leaves the counter of every user but the invoker as
\* it was, and a reset_log invocation that is carried out leaves the counter
\* of every user but its target as it was.  (A step is told apart first by
\* what it shows: the answer of a log invocation names its invoker, and a
\* reset that is carried out answers so and leaves new_number with its target.)
C20_OtherCountersUntouched ==
    [][/\ \A u \in UserIds :
            (/\ sent'.user_id = str(u)
             /\ \E date \in Dates, out \in SaveOutcomes : log_command(u, date, out))
            => \A k \in UserKeys \ {str(u)} : SameCounter(k)
       /\ \A u \in UserIds, user \in {0} \cup UserIds, new_number \in NewNumbers :
            LET target == str(IF user # 0 THEN user ELSE u)
            IN  (/\ sent'.kind = (IF user # 0 THEN "reset_other" ELSE "reset_own")
                 /\ Has(log_numbers', target, new_number)
                 /\ \E is_admin \in BOOLEAN, out \in SaveOutcomes :
                       /\ ~reset_denied(user, is_admin)
                       /\ reset_log_command(u, user, new_number, is_admin, out))
                => \A k \in UserKeys \ {target} : SameCounter(k)]_vars

C20_Witness ==
    /\ sent.kind = "reset_other"
    /\ \E k \in UserKeys : Has(log_numbers, k, MaxCount)
    /\ \E k \in UserKeys : Has(log_numbers, k, MaxReset)

====
